---- MODULE Spec2Model ----
(***************************************************************************)
(* Model of the uke account filter contract (src/lib.rs).                  *)
(* The contract keeps three mappings keyed by AccountId and an event log   *)
(* kept by the hosting environment.  Every message runs to completion, so  *)
(* each message is one action.                                             *)
(***************************************************************************)
EXTENDS Integers, Sequences, FiniteSets, TLC

\* Number of messages dispatched to the contract in one behaviour.
MaxCalls == 4

\* ink_env::test::default_accounts: the accounts the tests use.
alice == "alice"
bob == "bob"
charlie == "charlie"
django == "django"
Accounts == {alice, bob, charlie, django}

\* The accounts that send messages (set_next_caller); any account can be a target.
Callers == {alice, bob}

\* enum Error, plus the Ok(()) of Result<()>.
Ok == "Ok"
NotOptedIn == "NotOptedIn"
CallerIsNotOwner == "CallerIsNotOwner"

VARIABLES
    opted_in,          \* Mapping<AccountId, bool>
    global_filter,     \* Mapping<AccountId, bool>
    allowed_accounts,  \* Mapping<AccountId, Vec<AccountId>>
    default_address,   \* AccountId
    events,            \* the OptIn events emitted through self.env().emit_event
    last,              \* the message dispatched last, its caller and what it returned
    ncalls,            \* number of messages dispatched so far
    written,           \* accounts on which a mutating message has returned Ok
    alice_calls        \* the messages alice has sent, while they follow a test scenario

store == <<opted_in, global_filter, allowed_accounts>>
vars == <<opted_in, global_filter, allowed_accounts, default_address, events,
          last, ncalls, written, alice_calls>>

\* Mapping::insert: the entry for key becomes value, every other entry stays.
MappingInsert(m, key, value) ==
    [k \in (DOMAIN m) \cup {key} |-> IF k = key THEN value ELSE m[k]]

\* A push that puts the element in front.
push_front(vec, x) == <<x>> \o vec

\* Vec::push
push(vec, x) == Append(vec, x)

\* ---- utility functions ------------------------------------------------

\* The opt-in lookup with the wrong default.
get_optin_status_or_true(id) ==
    IF id \in DOMAIN opted_in THEN opted_in[id] ELSE TRUE

get_optin_status_or_default(id) ==
    IF id \in DOMAIN opted_in THEN opted_in[id] ELSE FALSE

get_global_status_or_default(id) ==
    IF id \in DOMAIN global_filter THEN global_filter[id] ELSE FALSE

get_allowed_list_or_default(id) ==
    IF id \in DOMAIN allowed_accounts THEN allowed_accounts[id] ELSE <<>>

\* An ownership guard that lets every caller through.
is_caller_owner_any(caller, id) == TRUE

is_caller_owner(caller, id) == id = caller

\* ---- the scenario of tests::get_allowed_accounts_works -------------------

NoAccount == "none"

CallOf(op, id, status, id_to_add) ==
    [op |-> op, id |-> id, status |-> status, id_to_add |-> id_to_add]

\* The calls of the test, made by alice on a new contract.
TestScenario ==
    << CallOf("change_optin_status", alice, TRUE, NoAccount),
       CallOf("add_to_allowed", alice, FALSE, bob),
       CallOf("add_to_allowed", alice, FALSE, charlie),
       CallOf("add_to_allowed", alice, FALSE, django) >>

\* The same calls without the opt-in the test starts with.
AddsOnlyScenario == SubSeq(TestScenario, 2, 4)

IsPrefix(s, t) == Len(s) <= Len(t) /\ s = SubSeq(t, 1, Len(s))

Diverged == << [call |-> CallOf("other", NoAccount, FALSE, NoAccount), result |-> "none"] >>

CallsIn(log) == [i \in 1..Len(log) |-> log[i].call]

\* alice's calls are recorded as long as they follow one of the two scenarios.
Follow(log, caller, call, result) ==
    IF caller # alice THEN log
    ELSE LET next == Append(log, [call |-> call, result |-> result])
         IN IF IsPrefix(CallsIn(next), TestScenario) \/ IsPrefix(CallsIn(next), AddsOnlyScenario)
            THEN next ELSE Diverged

\* What every message does to the record of the dispatch.
Dispatch(op, caller, id, status, id_to_add, result, flag, list) ==
    /\ last' = [op |-> op, caller |-> caller, id |-> id, status |-> status,
                id_to_add |-> id_to_add, result |-> result, flag |-> flag, list |-> list]
    /\ ncalls' = ncalls + 1
    /\ alice_calls' = Follow(alice_calls, caller, CallOf(op, id, status, id_to_add), result)
    /\ UNCHANGED default_address

\* return Err(err): the message ends without touching the storage or the event log.
ReturnErr(op, caller, id, status, id_to_add, err) ==
    /\ Dispatch(op, caller, id, status, id_to_add, err, FALSE, <<>>)
    /\ UNCHANGED <<opted_in, global_filter, allowed_accounts, events, written>>

\* ---- messages ------------------------------------------------------------

get_optin_status(caller, id) ==
    /\ ncalls < MaxCalls
    /\ Dispatch("get_optin_status", caller, id, FALSE, NoAccount, Ok,
                get_optin_status_or_default(id), <<>>)
    /\ UNCHANGED <<opted_in, global_filter, allowed_accounts, events, written>>

\* change_optin_status that also resets the global filter.
change_optin_status_reset(caller, status, id) ==
    /\ ncalls < MaxCalls
    /\ IF ~is_caller_owner(caller, id)
       THEN ReturnErr("change_optin_status", caller, id, status, NoAccount, CallerIsNotOwner)
       ELSE /\ opted_in' = MappingInsert(opted_in, id, status)
            /\ global_filter' = MappingInsert(global_filter, id, FALSE)
            /\ events' = Append(events, [id |-> id, status |-> status])
            /\ written' = written \cup {id}
            /\ Dispatch("change_optin_status", caller, id, status, NoAccount, Ok, FALSE, <<>>)
            /\ UNCHANGED allowed_accounts

\* change_optin_status that emits OptIn only when the stored value changes.
change_optin_status_dedup(caller, status, id) ==
    /\ ncalls < MaxCalls
    /\ IF ~is_caller_owner(caller, id)
       THEN ReturnErr("change_optin_status", caller, id, status, NoAccount, CallerIsNotOwner)
       ELSE /\ opted_in' = MappingInsert(opted_in, id, status)
            /\ events' = IF id \in DOMAIN opted_in /\ opted_in[id] = status
                         THEN events
                         ELSE Append(events, [id |-> id, status |-> status])
            /\ written' = written \cup {id}
            /\ Dispatch("change_optin_status", caller, id, status, NoAccount, Ok, FALSE, <<>>)
            /\ UNCHANGED <<global_filter, allowed_accounts>>

change_optin_status(caller, status, id) ==
    /\ ncalls < MaxCalls
    /\ IF ~is_caller_owner(caller, id)
       THEN ReturnErr("change_optin_status", caller, id, status, NoAccount, CallerIsNotOwner)
       ELSE /\ opted_in' = MappingInsert(opted_in, id, status)
            /\ events' = Append(events, [id |-> id, status |-> status])
            /\ written' = written \cup {id}
            /\ Dispatch("change_optin_status", caller, id, status, NoAccount, Ok, FALSE, <<>>)
            /\ UNCHANGED <<global_filter, allowed_accounts>>

\* change_global_filter that inserts into the opted_in mapping.
change_global_filter_wrong_map(caller, id, status) ==
    /\ ncalls < MaxCalls
    /\ IF ~is_caller_owner(caller, id)
       THEN ReturnErr("change_global_filter", caller, id, status, NoAccount, CallerIsNotOwner)
       ELSE IF ~get_optin_status_or_default(id)
       THEN ReturnErr("change_global_filter", caller, id, status, NoAccount, NotOptedIn)
       ELSE /\ opted_in' = MappingInsert(opted_in, id, status)
            /\ written' = written \cup {id}
            /\ Dispatch("change_global_filter", caller, id, status, NoAccount, Ok, FALSE, <<>>)
            /\ UNCHANGED <<global_filter, allowed_accounts, events>>

\* change_global_filter without the opt-in prerequisite.
change_global_filter_ungated(caller, id, status) ==
    /\ ncalls < MaxCalls
    /\ IF ~is_caller_owner(caller, id)
       THEN ReturnErr("change_global_filter", caller, id, status, NoAccount, CallerIsNotOwner)
       ELSE /\ global_filter' = MappingInsert(global_filter, id, status)
            /\ written' = written \cup {id}
            /\ Dispatch("change_global_filter", caller, id, status, NoAccount, Ok, FALSE, <<>>)
            /\ UNCHANGED <<opted_in, allowed_accounts, events>>

change_global_filter(caller, id, status) ==
    /\ ncalls < MaxCalls
    /\ IF ~is_caller_owner(caller, id)
       THEN ReturnErr("change_global_filter", caller, id, status, NoAccount, CallerIsNotOwner)
       ELSE IF ~get_optin_status_or_default(id)
       THEN ReturnErr("change_global_filter", caller, id, status, NoAccount, NotOptedIn)
       ELSE /\ global_filter' = MappingInsert(global_filter, id, status)
            /\ written' = written \cup {id}
            /\ Dispatch("change_global_filter", caller, id, status, NoAccount, Ok, FALSE, <<>>)
            /\ UNCHANGED <<opted_in, allowed_accounts, events>>

\* get_global_filter that looks the opt-in flag up instead.
get_global_filter_wrong_lookup(caller, id) ==
    /\ ncalls < MaxCalls
    /\ Dispatch("get_global_filter", caller, id, FALSE, NoAccount, Ok,
                get_optin_status_or_default(id), <<>>)
    /\ UNCHANGED <<opted_in, global_filter, allowed_accounts, events, written>>

get_global_filter(caller, id) ==
    /\ ncalls < MaxCalls
    /\ Dispatch("get_global_filter", caller, id, FALSE, NoAccount, Ok,
                get_global_status_or_default(id), <<>>)
    /\ UNCHANGED <<opted_in, global_filter, allowed_accounts, events, written>>

\* add_to_allowed that skips an account already in the list.
add_to_allowed_dedup(caller, id, id_to_add) ==
    /\ ncalls < MaxCalls
    /\ IF ~is_caller_owner(caller, id)
       THEN ReturnErr("add_to_allowed", caller, id, FALSE, id_to_add, CallerIsNotOwner)
       ELSE IF ~get_optin_status_or_default(id)
       THEN ReturnErr("add_to_allowed", caller, id, FALSE, id_to_add, NotOptedIn)
       ELSE /\ LET old == get_allowed_list_or_default(id)
                   vec == IF \E i \in 1..Len(old) : old[i] = id_to_add
                          THEN old ELSE push(old, id_to_add)
               IN allowed_accounts' = MappingInsert(allowed_accounts, id, vec)
            /\ written' = written \cup {id}
            /\ Dispatch("add_to_allowed", caller, id, FALSE, id_to_add, Ok, FALSE, <<>>)
            /\ UNCHANGED <<opted_in, global_filter, events>>

\* add_to_allowed that stores the list under id_to_add.
add_to_allowed_wrong_key(caller, id, id_to_add) ==
    /\ ncalls < MaxCalls
    /\ IF ~is_caller_owner(caller, id)
       THEN ReturnErr("add_to_allowed", caller, id, FALSE, id_to_add, CallerIsNotOwner)
       ELSE IF ~get_optin_status_or_default(id)
       THEN ReturnErr("add_to_allowed", caller, id, FALSE, id_to_add, NotOptedIn)
       ELSE /\ LET vec == push(get_allowed_list_or_default(id), id_to_add)
               IN allowed_accounts' = MappingInsert(allowed_accounts, id_to_add, vec)
            /\ written' = written \cup {id}
            /\ Dispatch("add_to_allowed", caller, id, FALSE, id_to_add, Ok, FALSE, <<>>)
            /\ UNCHANGED <<opted_in, global_filter, events>>

\* add_to_allowed with the two checks in the other order.
add_to_allowed_optin_first(caller, id, id_to_add) ==
    /\ ncalls < MaxCalls
    /\ IF ~get_optin_status_or_default(id)
       THEN ReturnErr("add_to_allowed", caller, id, FALSE, id_to_add, NotOptedIn)
       ELSE IF ~is_caller_owner(caller, id)
       THEN ReturnErr("add_to_allowed", caller, id, FALSE, id_to_add, CallerIsNotOwner)
       ELSE /\ LET vec == push(get_allowed_list_or_default(id), id_to_add)
               IN allowed_accounts' = MappingInsert(allowed_accounts, id, vec)
            /\ written' = written \cup {id}
            /\ Dispatch("add_to_allowed", caller, id, FALSE, id_to_add, Ok, FALSE, <<>>)
            /\ UNCHANGED <<opted_in, global_filter, events>>

add_to_allowed(caller, id, id_to_add) ==
    /\ ncalls < MaxCalls
    /\ IF ~is_caller_owner(caller, id)
       THEN ReturnErr("add_to_allowed", caller, id, FALSE, id_to_add, CallerIsNotOwner)
       ELSE IF ~get_optin_status_or_default(id)
       THEN ReturnErr("add_to_allowed", caller, id, FALSE, id_to_add, NotOptedIn)
       ELSE /\ LET vec == push(get_allowed_list_or_default(id), id_to_add)
               IN allowed_accounts' = MappingInsert(allowed_accounts, id, vec)
            /\ written' = written \cup {id}
            /\ Dispatch("add_to_allowed", caller, id, FALSE, id_to_add, Ok, FALSE, <<>>)
            /\ UNCHANGED <<opted_in, global_filter, events>>

get_allowed_accounts(caller, id) ==
    /\ ncalls < MaxCalls
    /\ Dispatch("get_allowed_accounts", caller, id, FALSE, NoAccount, Ok,
                FALSE, get_allowed_list_or_default(id))
    /\ UNCHANGED <<opted_in, global_filter, allowed_accounts, events, written>>

\* ---- specification -------------------------------------------------------

\* UkeAccountFilter::new: empty mappings, default_address = Default::default().
Init ==
    /\ opted_in = [k \in {} |-> FALSE]
    /\ global_filter = [k \in {} |-> FALSE]
    /\ allowed_accounts = [k \in {} |-> <<>>]
    /\ default_address = "default"
    /\ events = <<>>
    /\ last = [op |-> "new", caller |-> NoAccount, id |-> NoAccount, status |-> FALSE,
               id_to_add |-> NoAccount, result |-> Ok, flag |-> FALSE, list |-> <<>>]
    /\ ncalls = 0
    /\ written = {}
    /\ alice_calls = <<>>

Next ==
    \/ \E caller \in Callers, id \in Accounts : get_optin_status(caller, id)
    \/ \E caller \in Callers, id \in Accounts, status \in BOOLEAN :
          change_optin_status(caller, status, id)
    \/ \E caller \in Callers, id \in Accounts, status \in BOOLEAN :
          change_global_filter(caller, id, status)
    \/ \E caller \in Callers, id \in Accounts : get_global_filter(caller, id)
    \/ \E caller \in Callers, id \in Accounts, id_to_add \in Accounts :
          add_to_allowed(caller, id, id_to_add)
    \/ \E caller \in Callers, id \in Accounts : get_allowed_accounts(caller, id)

Spec == Init /\ [][Next]_vars

\* ---- properties ----------------------------------------------------------

MutatingOps == {"change_optin_status", "change_global_filter", "add_to_allowed"}
GatedOps == {"change_global_filter", "add_to_allowed"}

\* C1: a mutating message whose caller is not its target returns
\* CallerIsNotOwner, changes none of the three mappings (of any account) and
\* emits no OptIn event.
C1_OwnerOnlyMutation ==
    [][ (last'.op \in MutatingOps /\ last'.caller # last'.id)
        => /\ last'.result = CallerIsNotOwner
           /\ store' = store
           /\ events' = events ]_vars

\* A foreign caller has been turned away from an account that has a record.
C1_Witness ==
    /\ last.op \in MutatingOps
    /\ last.caller # last.id
    /\ last.result = CallerIsNotOwner
    /\ last.id \in DOMAIN opted_in
    /\ opted_in[last.id]

\* C2: change_global_filter and add_to_allowed sent by the owner of an account
\* whose opt-in flag is false return NotOptedIn and change no mapping.
C2_OptInGate ==
    [][ (/\ last'.op \in GatedOps
         /\ last'.caller = last'.id
         /\ ~get_optin_status_or_default(last'.id))
        => /\ last'.result = NotOptedIn
           /\ store' = store
           /\ events' = events ]_vars

\* The owner was refused after opting in and out again.
C2_Witness ==
    /\ last.op \in GatedOps
    /\ last.caller = last.id
    /\ last.result = NotOptedIn
    /\ \E i \in 1..Len(events) : events[i] = [id |-> last.id, status |-> TRUE]

\* C3: when the caller is not the owner and the target is not opted in, the
\* gated messages return CallerIsNotOwner; NotOptedIn is returned only to the
\* owner.
C3_OwnershipFirst ==
    [][ last'.op \in GatedOps
        => /\ (last'.caller # last'.id /\ ~get_optin_status_or_default(last'.id))
                 => last'.result = CallerIsNotOwner
           /\ last'.result = NotOptedIn => last'.caller = last'.id ]_vars

\* Both error conditions held and CallerIsNotOwner was returned.
C3_Witness ==
    /\ last.op \in GatedOps
    /\ last.caller # last.id
    /\ ~get_optin_status_or_default(last.id)
    /\ last.result = CallerIsNotOwner

\* The claim C4 as stated: on a new contract alice sends the three
\* add_to_allowed calls and nothing else; each returns Ok and the list then has
\* length 3 with bob first.
C4_AddsOnNewStore ==
    (alice_calls # <<>> /\ IsPrefix(CallsIn(alice_calls), AddsOnlyScenario))
    => /\ \A i \in 1..Len(alice_calls) : alice_calls[i].result = Ok
       /\ Len(alice_calls) = 3
            => /\ Len(get_allowed_list_or_default(alice)) = 3
               /\ get_allowed_list_or_default(alice)[1] = bob

\* C4: on a new contract alice opts in and then sends the three add_to_allowed
\* calls and nothing else; every call returns Ok and the list is then
\* <<bob, charlie, django>>.  In general two add_to_allowed calls in a row by
\* the owner, the first one made on an empty list, leave the list <<x1, x2>>.
C4_AddsAfterOptIn ==
    /\ [] ( (alice_calls # <<>> /\ IsPrefix(CallsIn(alice_calls), TestScenario))
            => /\ \A i \in 1..Len(alice_calls) : alice_calls[i].result = Ok
               /\ get_allowed_list_or_default(alice) =
                     [i \in 1..(Len(alice_calls) - 1) |-> TestScenario[i + 1].id_to_add]
               /\ Len(alice_calls) = 4
                    => /\ Len(get_allowed_list_or_default(alice)) = 3
                       /\ get_allowed_list_or_default(alice)[1] = bob )
    /\ [][ (/\ last.op = "add_to_allowed"
            /\ last.result = Ok
            /\ get_allowed_list_or_default(last.id) = <<last.id_to_add>>
            /\ last'.op = "add_to_allowed"
            /\ last'.id = last.id
            /\ last'.caller = last'.id)
           => /\ last'.result = Ok
              /\ allowed_accounts'[last.id] = <<last.id_to_add, last'.id_to_add>> ]_vars

\* alice has run the whole scenario of the test.
C4_Witness ==
    /\ Len(alice_calls) = 4
    /\ CallsIn(alice_calls) = TestScenario
    /\ last.op = "add_to_allowed"
    /\ last.id_to_add = django

\* C5: an account on which no mutating message has returned Ok reads as not
\* opted in, global filter false, empty allow-list, both in the storage and in
\* what the read messages return.
C5_DefaultState ==
    /\ \A a \in Accounts :
          a \notin written
          => /\ get_optin_status_or_default(a) = FALSE
             /\ get_global_status_or_default(a) = FALSE
             /\ get_allowed_list_or_default(a) = <<>>
    /\ (last.id \in Accounts /\ last.id \notin written)
          => /\ last.op \in {"get_optin_status", "get_global_filter"} => last.flag = FALSE
             /\ last.op = "get_allowed_accounts" => last.list = <<>>

\* A read of an account that was put on another account's list but never
\* wrote its own record.
C5_Witness ==
    /\ last.op = "get_allowed_accounts"
    /\ last.id \notin written
    /\ \E a \in written : \E i \in 1..Len(get_allowed_list_or_default(a)) :
          get_allowed_list_or_default(a)[i] = last.id

\* C6: change_optin_status sent by the owner returns Ok whatever the state,
\* stores status, emits exactly one OptIn(id, status) and leaves the global
\* filter and the allow-list of id as they were.
C6_ChangeOptIn ==
    [][ \A id \in Accounts :
          (last'.op = "change_optin_status" /\ last'.id = id /\ last'.caller = id)
          => /\ last'.result = Ok
             /\ get_optin_status_or_default(id)' = last'.status
             /\ events' = Append(events, [id |-> id, status |-> last'.status])
             /\ get_global_status_or_default(id)' = get_global_status_or_default(id)
             /\ get_allowed_list_or_default(id)' = get_allowed_list_or_default(id) ]_vars

\* The owner has opted out while holding a global filter and an allow-list.
C6_Witness ==
    /\ last.op = "change_optin_status"
    /\ last.result = Ok
    /\ last.status = FALSE
    /\ get_global_status_or_default(last.id) = TRUE
    /\ get_allowed_list_or_default(last.id) # <<>>

\* C7: the same change_optin_status sent twice in a row by the owner leaves
\* the storage after the second call as after the first, and the second call
\* emits its own OptIn event after the one of the first call.
C7_OptInIdempotent ==
    [][ (/\ last.op = "change_optin_status"
         /\ last.result = Ok
         /\ last'.op = "change_optin_status"
         /\ last'.caller = last'.id
         /\ last'.id = last.id
         /\ last'.status = last.status)
        => /\ last'.result = Ok
           /\ store' = store
           /\ get_optin_status_or_default(last.id) = last.status
           /\ get_optin_status_or_default(last.id)' = last.status
           /\ Len(events) >= 1
           /\ events[Len(events)] = [id |-> last.id, status |-> last.status]
           /\ events' = Append(events, [id |-> last.id, status |-> last.status]) ]_vars

\* The event log ends with two equal OptIn events of the last call.
C7_Witness ==
    /\ last.op = "change_optin_status"
    /\ last.result = Ok
    /\ Len(events) >= 2
    /\ events[Len(events)] = [id |-> last.id, status |-> last.status]
    /\ events[Len(events) - 1] = events[Len(events)]

\* C8: change_global_filter sent by an opted-in owner returns Ok, stores
\* status, emits nothing and leaves the opt-in flag and the allow-list alone;
\* the same message sent next by another caller returns CallerIsNotOwner and
\* the stored value stays.
C8_ChangeGlobalFilter ==
    [][ \A id \in Accounts :
          /\ (/\ last'.op = "change_global_filter"
              /\ last'.id = id
              /\ last'.caller = id
              /\ get_optin_status_or_default(id))
             => /\ last'.result = Ok
                /\ get_global_status_or_default(id)' = last'.status
                /\ events' = events
                /\ opted_in' = opted_in
                /\ allowed_accounts' = allowed_accounts
          /\ (/\ last.op = "change_global_filter"
              /\ last.result = Ok
              /\ last.id = id
              /\ last'.op = "change_global_filter"
              /\ last'.id = id
              /\ last'.caller # id)
             => /\ last'.result = CallerIsNotOwner
                /\ get_global_status_or_default(id)' = last.status ]_vars

\* Another caller was turned away from a global filter its owner had set.
C8_Witness ==
    /\ last.op = "change_global_filter"
    /\ last.result = CallerIsNotOwner
    /\ last.status = FALSE
    /\ get_global_status_or_default(last.id) = TRUE

\* C9: add_to_allowed sent by an opted-in owner returns Ok for every
\* id_to_add, the list becomes the old list with id_to_add at the end, and the
\* two flags and the event log stay.
C9_AddToAllowed ==
    [][ \A id \in Accounts :
          (/\ last'.op = "add_to_allowed"
           /\ last'.id = id
           /\ last'.caller = id
           /\ get_optin_status_or_default(id))
          => /\ last'.result = Ok
             /\ get_allowed_list_or_default(id)' =
                   Append(get_allowed_list_or_default(id), last'.id_to_add)
             /\ opted_in' = opted_in
             /\ global_filter' = global_filter
             /\ events' = events ]_vars

\* The owner has added itself a second time.
C9_Witness ==
    /\ last.op = "add_to_allowed"
    /\ last.result = Ok
    /\ last.id_to_add = last.id
    /\ Len(get_allowed_list_or_default(last.id)) >= 2
    /\ get_allowed_list_or_default(last.id)[1] = last.id

\* C10: a message whose target is a leaves the three entries of every other
\* account b as they were, whoever the caller is.
C10_Isolation ==
    [][ \A b \in Accounts :
          b # last'.id
          => /\ (b \in DOMAIN opted_in') = (b \in DOMAIN opted_in)
             /\ (b \in DOMAIN global_filter') = (b \in DOMAIN global_filter)
             /\ (b \in DOMAIN allowed_accounts') = (b \in DOMAIN allowed_accounts)
             /\ get_optin_status_or_default(b)' = get_optin_status_or_default(b)
             /\ get_global_status_or_default(b)' = get_global_status_or_default(b)
             /\ get_allowed_list_or_default(b)' = get_allowed_list_or_default(b) ]_vars

\* An account with a record of its own was added to another account's list.
C10_Witness ==
    /\ last.op = "add_to_allowed"
    /\ last.result = Ok
    /\ last.id_to_add # last.id
    /\ last.id_to_add \in DOMAIN opted_in
    /\ opted_in[last.id_to_add]

ReadOps == {"get_optin_status", "get_global_filter", "get_allowed_accounts"}

\* C11: in every step the allow-list of every account before the step is a
\* prefix of its allow-list after the step, it grows by at most one element,
\* and it grows only in an add_to_allowed on that account that returns Ok.
C11_AppendOnly ==
    [][ \A a \in Accounts :
          /\ IsPrefix(get_allowed_list_or_default(a), get_allowed_list_or_default(a)')
          /\ Len(get_allowed_list_or_default(a)') <= Len(get_allowed_list_or_default(a)) + 1
          /\ get_allowed_list_or_default(a)' # get_allowed_list_or_default(a)
               => /\ last'.op = "add_to_allowed"
                  /\ last'.id = a
                  /\ last'.result = Ok ]_vars

\* An element was appended to a list that already had two different entries.
C11_Witness ==
    /\ last.op = "add_to_allowed"
    /\ last.result = Ok
    /\ Len(get_allowed_list_or_default(last.id)) = 3
    /\ get_allowed_list_or_default(last.id)[1] # get_allowed_list_or_default(last.id)[2]
    /\ get_allowed_list_or_default(last.id)[3] = get_allowed_list_or_default(last.id)[1]

\* C12: the three read messages return no error and the value stored for id
\* (or the default), for every caller and whether or not id is opted in, and
\* they change no mapping and emit no event.
C12_ReadsPure ==
    [][ last'.op \in ReadOps
        => /\ last'.result = Ok
           /\ store' = store
           /\ events' = events
           /\ \A id \in Accounts :
                 last'.id = id
                 => /\ last'.op = "get_optin_status"
                         => last'.flag = (IF id \in DOMAIN opted_in THEN opted_in[id] ELSE FALSE)
                    /\ last'.op = "get_global_filter"
                         => last'.flag = (IF id \in DOMAIN global_filter
                                          THEN global_filter[id] ELSE FALSE)
                    /\ last'.op = "get_allowed_accounts"
                         => last'.list = (IF id \in DOMAIN allowed_accounts
                                          THEN allowed_accounts[id] ELSE <<>>) ]_vars

\* Another caller has read the global filter, true, of an account that has
\* opted out.
C12_Witness ==
    /\ last.op = "get_global_filter"
    /\ last.caller # last.id
    /\ last.flag = TRUE
    /\ last.id \in DOMAIN opted_in
    /\ ~opted_in[last.id]

Results == {Ok, CallerIsNotOwner, NotOptedIn}

\* C13: in every state, for every caller and target, change_global_filter and
\* add_to_allowed return the same kind of result, whatever their second
\* argument.
C13_SameOutcome ==
    ncalls < MaxCalls
    => \A caller \in Callers, id \in Accounts, r \in Results :
         /\ (ENABLED (change_global_filter(caller, id, FALSE) /\ last'.result = r))
            = (ENABLED (change_global_filter(caller, id, TRUE) /\ last'.result = r))
         /\ \A id_to_add \in Accounts :
               (ENABLED (add_to_allowed(caller, id, id_to_add) /\ last'.result = r))
               = (ENABLED (change_global_filter(caller, id, TRUE) /\ last'.result = r))

\* A state in which the two messages can return each of the three kinds, just
\* after one of them was refused to a foreign caller.
C13_Witness ==
    /\ ncalls < MaxCalls
    /\ last.op \in GatedOps
    /\ last.result = CallerIsNotOwner
    /\ \E id \in Callers :
          /\ ENABLED (change_global_filter(id, id, TRUE) /\ last'.result = Ok)
          /\ ENABLED (add_to_allowed(id, id, id) /\ last'.result = Ok)
    /\ \E id \in Callers :
          /\ ENABLED (change_global_filter(id, id, TRUE) /\ last'.result = NotOptedIn)
          /\ ENABLED (add_to_allowed(id, id, id) /\ last'.result = NotOptedIn)

\* The claim C14 as stated: when a mutating message has returned an error, the
\* same message with the same arguments sent next by the owner of the target
\* returns Ok.
C14_ReissueReturnsOk ==
    [][ (/\ last.op \in MutatingOps
         /\ last.result # Ok
         /\ last'.op = last.op
         /\ last'.id = last.id
         /\ last'.status = last.status
         /\ last'.id_to_add = last.id_to_add
         /\ last'.caller = last'.id)
        => last'.result = Ok ]_vars

\* C14: when a mutating message has returned an error, the same message with
\* the same arguments sent next by the owner of the target returns Ok if the
\* message is change_optin_status or the target is opted in, and NotOptedIn
\* otherwise; no error changes the storage.
C14_ReissueAsOwner ==
    [][ /\ (/\ last.op \in MutatingOps
            /\ last.result # Ok
            /\ last'.op = last.op
            /\ last'.id = last.id
            /\ last'.status = last.status
            /\ last'.id_to_add = last.id_to_add
            /\ last'.caller = last'.id)
           => last'.result =
                IF last.op = "change_optin_status" \/ get_optin_status_or_default(last.id)
                THEN Ok ELSE NotOptedIn
        /\ (last'.op \in MutatingOps /\ last'.result # Ok) => store' = store ]_vars

\* add_to_allowed was refused to a foreign caller and the owner of the target,
\* who is opted in, can send it again and get Ok.
C14_Witness ==
    /\ ncalls < MaxCalls
    /\ last.op = "add_to_allowed"
    /\ last.result = CallerIsNotOwner
    /\ get_optin_status_or_default(last.id)
    /\ ENABLED (add_to_allowed(last.id, last.id, last.id_to_add) /\ last'.result = Ok)

\* C15: in every state the owner a can set its opt-in flag to either value
\* without moving its global filter, and once opted in can set its global
\* filter to either value without moving its opt-in flag, so every
\* combination of the two flags leads to every other one in at most three
\* calls of a and none is terminal; the storage changes only in a mutating
\* message sent by the owner of the target.
C15_IndependentAxes ==
    /\ [] ( ncalls < MaxCalls
            => \A a \in Callers :
                 /\ \A status \in BOOLEAN :
                       ENABLED (/\ change_optin_status(a, status, a)
                                /\ get_optin_status_or_default(a)' = status
                                /\ get_global_status_or_default(a)'
                                     = get_global_status_or_default(a))
                 /\ get_optin_status_or_default(a)
                      => \A status \in BOOLEAN :
                            ENABLED (/\ change_global_filter(a, a, status)
                                     /\ get_global_status_or_default(a)' = status
                                     /\ get_optin_status_or_default(a)' = TRUE) )
    /\ [][ store' # store
           => /\ last'.op \in MutatingOps
              /\ last'.caller = last'.id
              /\ last'.result = Ok
              /\ ncalls' = ncalls + 1 ]_vars

\* An account that is opted out with its global filter true, reached by its
\* own calls, and that can opt in again keeping the filter.
C15_Witness ==
    /\ ncalls < MaxCalls
    /\ \E a \in Callers :
          /\ last.caller = a
          /\ get_optin_status_or_default(a) = FALSE
          /\ get_global_status_or_default(a) = TRUE
          /\ ENABLED (/\ change_optin_status(a, TRUE, a)
                       /\ get_optin_status_or_default(a)' = TRUE
                       /\ get_global_status_or_default(a)' = TRUE)

\* C16: an account whose global filter is true or whose allow-list is not
\* empty has an OptIn(a, true) event in the log, whatever its opt-in flag is
\* now.
C16_SettingsImplyOptInEvent ==
    \A a \in Accounts :
       (get_global_status_or_default(a) = TRUE \/ get_allowed_list_or_default(a) # <<>>)
       => \E i \in 1..Len(events) : events[i] = [id |-> a, status |-> TRUE]

\* An account that has opted out keeps a true global filter and an allow-list.
C16_Witness ==
    \E a \in Accounts :
       /\ get_optin_status_or_default(a) = FALSE
       /\ get_global_status_or_default(a) = TRUE
       /\ get_allowed_list_or_default(a) # <<>>
       /\ events[Len(events)] = [id |-> a, status |-> FALSE]

\* C17: the event log starts empty and every step appends OptIn(id, status) to
\* it exactly when the step is a change_optin_status that returns Ok, and
\* appends nothing otherwise; the opt-in flag of every account is the status of
\* its latest event, or false when it has none.
C17_EventLog ==
    /\ [] ( /\ ncalls = 0 => events = <<>>
            /\ \A a \in Accounts :
                  LET mine == {i \in 1..Len(events) : events[i].id = a}
                  IN get_optin_status_or_default(a) =
                       IF mine = {} THEN FALSE
                       ELSE events[CHOOSE i \in mine : \A j \in mine : j <= i].status )
    /\ [][ events' = IF last'.op = "change_optin_status" /\ last'.result = Ok
                     THEN Append(events, [id |-> last'.id, status |-> last'.status])
                     ELSE events ]_vars

\* Two accounts have events in the log and one of them has changed its mind.
C17_Witness ==
    /\ Len(events) = 3
    /\ events[1].id = events[3].id
    /\ events[1].status # events[3].status
    /\ events[2].id # events[1].id
    /\ last.op = "change_optin_status"
    /\ last.result = CallerIsNotOwner

====
